---------------------------- MODULE Spec2Model ----------------------------
(***************************************************************************)
(* A model of src/src/utils/data_utils.py: the tweet cleaner               *)
(* (text_to_wordlist), the corpus loader (load_data), the vocabulary and   *)
(* sequence encoder (get_tokenizer, get_padded_sequences), the cache-or-   *)
(* recompute pipeline (get_data), the embedding loader                     *)
(* (get_embedding_matrix) and the batch feeder (input_fn).                 *)
(*                                                                         *)
(* A Python str is a sequence of one-character strings.                    *)
(***************************************************************************)
EXTENDS Integers, Sequences, FiniteSets, TLC

(***************************************************************************)
(* Characters and the character classes the regular expressions use.       *)
(***************************************************************************)
LowerSeq ==
    << "a", "b", "c", "d", "e", "f", "g", "h", "i", "j", "k", "l", "m",
       "n", "o", "p", "q", "r", "s", "t", "u", "v", "w", "x", "y", "z" >>

UpperSeq ==
    << "A", "B", "C", "D", "E", "F", "G", "H", "I", "J", "K", "L", "M",
       "N", "O", "P", "Q", "R", "S", "T", "U", "V", "W", "X", "Y", "Z" >>

LowerLetters == { LowerSeq[i] : i \in 1..26 }

UpperLetters == { UpperSeq[i] : i \in 1..26 }

Digits == { "0", "1", "2", "3", "4", "5", "6", "7", "8", "9" }

\* \s of the re module, and what str.split() splits on
Whitespace == { " ", "\t", "\n", "\r" }

\* the NUL character, which the pattern \0 of line 86 denotes
NUL == "NUL"

\* the characters of the range +-= inside the class of line 61: 0x2B..0x3D
PlusToEquals == { "+", ",", "-", ".", "/", ":", ";", "<", "=" } \cup Digits

\* the class [A-Za-z^,!.\/'+-=] of line 61 (without its leading negation)
KeptChars ==
    LowerLetters \cup UpperLetters \cup { "^", ",", "!", ".", "/", "'" }
        \cup PlusToEquals

\* str.lower() on one character
LowerChar(c) ==
    IF c \in UpperLetters
    THEN LowerSeq[CHOOSE i \in 1..26 : UpperSeq[i] = c]
    ELSE c

\* the sequence f as a tuple of values, every element computed once
AsSeq(f) == SubSeq(f, 1, Len(f))

\* str.lower()
Lower(s) == AsSeq([ i \in 1..Len(s) |-> LowerChar(s[i]) ])

(***************************************************************************)
(* str.split() and " ".join().                                             *)
(***************************************************************************)
\* the k-th smallest member of a set of integers
Nth(S, k) == CHOOSE x \in S : Cardinality({ y \in S : y < x }) = k - 1

\* s split at the characters of seps, empty pieces dropped: the maximal
\* runs of other characters, in order
SplitOn(seps, str) ==
    CHOOSE r \in
        { LET at == AsSeq([ i \in 1..Len(s) |-> i ])
              starts == SelectSeq(at, LAMBDA i :
                            /\ s[i] \notin seps
                            /\ (i = 1 \/ s[i - 1] \in seps))
              ends == SelectSeq(at, LAMBDA i :
                          /\ s[i] \notin seps
                          /\ (i = Len(s) \/ s[i + 1] \in seps))
          IN  AsSeq([ k \in 1..Len(starts) |-> SubSeq(s, starts[k], ends[k]) ])
          : s \in { str } } : TRUE

\* str.split()
SplitWs(s) == SplitOn(Whitespace, s)

\* sep.join(parts)
JoinWith(sep, parts) ==
    LET RECURSIVE Join(_, _, _)
        Join(ps, lo, hi) ==
            IF lo = hi THEN ps[lo]
            ELSE CHOOSE r \in
                    { a \o sep \o Join(ps, ((lo + hi) \div 2) + 1, hi)
                      : a \in { Join(ps, lo, (lo + hi) \div 2) } } : TRUE
    IN  CHOOSE r \in { IF ps = <<>> THEN <<>> ELSE Join(ps, 1, Len(ps))
                       : ps \in { parts } } : TRUE

\* " ".join(words)
JoinSp(words) == JoinWith(<< " " >>, words)

\* str.strip()
Strip(str) ==
    CHOOSE r \in
        { LET nonWs == { i \in 1..Len(s) : s[i] \notin Whitespace }
          IN  IF nonWs = {} THEN <<>>
              ELSE SubSeq(s, Nth(nonWs, 1), Nth(nonWs, Cardinality(nonWs)))
          : s \in { str } } : TRUE

(***************************************************************************)
(* re.sub(pattern, repl, s): scanning left to right, the match that starts *)
(* at the scan's position is replaced and the scan resumes after it, a     *)
(* character that starts no match is copied; matches do not overlap.       *)
(* Match(s, i) is the length of the match of the pattern that starts at    *)
(* position i (0: none; no pattern here matches the empty string), Repl(m) *)
(* the replacement of the matched text m.                                  *)
(***************************************************************************)
ReSub(Match(_, _), Repl(_), str) ==
    LET \* the scan over the positions lo..hi of s, entered with the scan at
        \* position p >= lo: << what it emits, where the scan is after hi >>
        RECURSIVE Scan(_, _, _, _)
        Scan(s, lo, hi, p) ==
            IF p > hi THEN << <<>>, p >>
            ELSE IF lo = hi
            THEN CHOOSE r \in
                    { IF n > 0
                      THEN << Repl(SubSeq(s, p, p + n - 1)), p + n >>
                      ELSE << << s[p] >>, p + 1 >>
                      : n \in { Match(s, p) } } : TRUE
            ELSE CHOOSE r \in
                    { CHOOSE q \in
                        { << a[1] \o b[1], b[2] >>
                          : b \in { Scan(s, ((lo + hi) \div 2) + 1, hi, a[2]) } }
                        : TRUE
                      : a \in { Scan(s, lo, (lo + hi) \div 2, p) } } : TRUE
    IN  \* s is the value of str, evaluated once
        CHOOSE r \in { IF s = <<>> THEN <<>> ELSE Scan(s, 1, Len(s), 1)[1]
                       : s \in { str } } : TRUE

\* whether the literal text lit occurs in s at position i
LitAt(lit, s, i) ==
    /\ i + Len(lit) - 1 <= Len(s)
    /\ \A j \in 1..Len(lit) : s[i + j - 1] = lit[j]

\* the length of the longest run of characters of s from position i on that
\* satisfy In(_): a greedy X+ (0 when s[i] does not)
RunLen(In(_), s, i) ==
    LET stops == { j \in i..Len(s) : ~In(s[j]) }
    IN  IF i > Len(s) THEN 0
        ELSE IF stops = {} THEN Len(s) - i + 1
        ELSE Nth(stops, 1) - i

NonSpace(c) == c \notin Whitespace

IsSpace(c) == c \in Whitespace

IsDigit(c) == c \in Digits

\* @\S+|https?:\S+|http?:\S (line 59): the first alternative that matches at
\* position i decides; s? and p? are greedy and no shorter choice can match
UrlMatch(s, i) ==
    LET at == IF s[i] = "@" THEN RunLen(NonSpace, s, i + 1) ELSE 0
        k2 == IF LitAt(<< "h", "t", "t", "p", "s" >>, s, i) THEN i + 5 ELSE i + 4
        run2 == IF /\ LitAt(<< "h", "t", "t", "p" >>, s, i)
                   /\ k2 <= Len(s)
                   /\ s[k2] = ":"
                THEN RunLen(NonSpace, s, k2 + 1) ELSE 0
        k3 == IF LitAt(<< "h", "t", "t", "p" >>, s, i) THEN i + 4 ELSE i + 3
        ok3 == /\ LitAt(<< "h", "t", "t" >>, s, i)
               /\ k3 + 1 <= Len(s)
               /\ s[k3] = ":"
               /\ NonSpace(s[k3 + 1])
    IN  IF at > 0 THEN 1 + at
        ELSE IF run2 > 0 THEN (k2 - i) + 1 + run2
        ELSE IF ok3 THEN (k3 - i) + 2
        ELSE 0

\* (\d+)(k) of line 81: a run of digits and the k after it
ThousandsMatch(s, i) ==
    LET n == RunLen(IsDigit, s, i)
    IN  IF n > 0 /\ i + n <= Len(s) /\ s[i + n] = "k" THEN n + 1 ELSE 0

\* \s{2,} of line 90
SpacesMatch(s, i) ==
    LET n == RunLen(IsSpace, s, i) IN IF n >= 2 THEN n ELSE 0

(***************************************************************************)
(* The substitution rules of text_to_wordlist, lines 59-90, in the order   *)
(* the code applies them.  kind tells how pat is read: "lit" a literal     *)
(* text, "class" one character of the set pat, "notclass" one character    *)
(* outside it.                                                             *)
(***************************************************************************)
Lit(pat, rep) == [ kind |-> "lit", pat |-> pat, rep |-> rep ]

Rules ==
    << [ kind |-> "url", pat |-> <<>>, rep |-> << " " >> ],
       [ kind |-> "class", pat |-> Digits, rep |-> <<>> ],
       [ kind |-> "notclass", pat |-> KeptChars, rep |-> << " " >> ],
       Lit(<< "w", "h", "a", "t", "'", "s" >>,
           << "w", "h", "a", "t", " ", "i", "s", " " >>),
       Lit(<< "t", "h", "a", "t", "'", "s" >>,
           << "t", "h", "a", "t", " ", "i", "s", " " >>),
       Lit(<< "'", "s" >>, << " " >>),
       Lit(<< "'", "v", "e" >>, << " ", "h", "a", "v", "e", " " >>),
       Lit(<< "c", "a", "n", "'", "t" >>, << "c", "a", "n", "n", "o", "t", " " >>),
       Lit(<< "n", "'", "t" >>, << " ", "n", "o", "t", " " >>),
       Lit(<< "i", "'", "m" >>, << "i", " ", "a", "m", " " >>),
       Lit(<< "'", "r", "e" >>, << " ", "a", "r", "e", " " >>),
       Lit(<< "'", "d" >>, << " ", "w", "o", "u", "l", "d", " " >>),
       Lit(<< "'", "l", "l" >>, << " ", "w", "i", "l", "l", " " >>),
       Lit(<< "," >>, << " " >>),
       Lit(<< "." >>, << " " >>),
       Lit(<< "!" >>, << " ", "!", " " >>),
       Lit(<< "/" >>, << " " >>),
       Lit(<< "^" >>, << " ", "^", " " >>),
       Lit(<< "+" >>, << " ", "+", " " >>),
       Lit(<< "-" >>, << " ", "-", " " >>),
       Lit(<< "=" >>, << " ", "=", " " >>),
       Lit(<< "'" >>, << " " >>),
       [ kind |-> "thousands", pat |-> <<>>, rep |-> << "0", "0", "0" >> ],
       Lit(<< ":" >>, << " ", ":", " " >>),
       Lit(<< " ", "e", " ", "g", " " >>, << " ", "e", "g", " " >>),
       Lit(<< " ", "b", " ", "g", " " >>, << " ", "b", "g", " " >>),
       Lit(<< " ", "u", " ", "s", " " >>,
           << " ", "a", "m", "e", "r", "i", "c", "a", "n", " " >>),
       Lit(<< NUL, "s" >>, << "0" >>),
       Lit(<< " ", "9", " ", "1", "1", " " >>, << "9", "1", "1" >>),
       Lit(<< "e", " ", "-", " ", "m", "a", "i", "l" >>,
           << "e", "m", "a", "i", "l" >>),
       Lit(<< "j", " ", "k" >>, << "j", "k" >>),
       [ kind |-> "spaces", pat |-> <<>>, rep |-> << " " >> ] >>

\* text = re.sub(<rule>, text): one line of lines 59-90
ApplyRule(rule, s) ==
    LET M(t, i) ==
            CASE rule.kind = "lit" ->
                    IF LitAt(rule.pat, t, i) THEN Len(rule.pat) ELSE 0
              [] rule.kind = "class" -> IF t[i] \in rule.pat THEN 1 ELSE 0
              [] rule.kind = "notclass" -> IF t[i] \notin rule.pat THEN 1 ELSE 0
              [] rule.kind = "url" -> UrlMatch(t, i)
              [] rule.kind = "thousands" -> ThousandsMatch(t, i)
              [] rule.kind = "spaces" -> SpacesMatch(t, i)
        R(m) ==
            \* \g<1>000: the digits matched, then the replacement
            IF rule.kind = "thousands"
            THEN SubSeq(m, 1, Len(m) - 1) \o rule.rep
            ELSE rule.rep
    IN  ReSub(M, R, s)

\* the rules lo..hi of rules applied to s one after the other
RECURSIVE ApplyRules(_, _, _, _)
ApplyRules(rules, lo, hi, s) ==
    IF lo > hi THEN s
    ELSE IF lo = hi THEN ApplyRule(rules[lo], s)
    ELSE CHOOSE r \in
            { ApplyRules(rules, ((lo + hi) \div 2) + 1, hi, t)
              : t \in { ApplyRules(rules, lo, (lo + hi) \div 2, s) } } : TRUE

\* stopwords.words("english") of nltk, of which these are members
Stopwords ==
    { << "i" >>, << "a" >>, << "s" >>, << "t" >>, << "a", "m" >>,
      << "i", "s" >>, << "m", "e" >> }

(***************************************************************************)
(* text_to_wordlist(text, remove_stopwords, stem_words=False).  text is a  *)
(* record: isStr tells whether the argument is a str (pandas hands a float *)
(* NaN over for an empty cell), val is its characters.                     *)
(***************************************************************************)
\* lines 47-56: "unk" for a non-str, lower(), split(), the stop-word filter,
\* " ".join()
Prepare(text, remove_stopwords) ==
    LET t0 == IF text.isStr THEN text.val ELSE << "u", "n", "k" >>
        ws == SplitWs(Lower(t0))
        kept == IF remove_stopwords
                THEN SelectSeq(ws, LAMBDA w : w \notin Stopwords)
                ELSE ws
    IN  JoinSp(kept)

\* text_to_wordlist without the strip() of line 100
text_to_wordlist_unstripped(text, remove_stopwords) ==
    ApplyRules(Rules, 1, Len(Rules), Prepare(text, remove_stopwords))

\* lines 45-100, stem_words left False
text_to_wordlist(text, remove_stopwords) ==
    Strip(ApplyRules(Rules, 1, Len(Rules), Prepare(text, remove_stopwords)))

\* a str argument
StrArg(s) == [ isStr |-> TRUE, val |-> s ]

\* an argument that is not a str
NotStrArg == [ isStr |-> FALSE, val |-> <<>> ]

(***************************************************************************)
(* Program constants.                                                      *)
(***************************************************************************)
\* VOCAB_SIZE (line 32) is 20000 in the source; the model runs the same code
\* with a vocabulary cap small enough to enumerate
VOCAB_SIZE == 3

\* maxlen of pad_sequences (line 136)
MAXLEN == 50

(***************************************************************************)
(* The Keras tokenizer as the code configures it: num_words=VOCAB_SIZE, no *)
(* oov_token, the default filters, lower-casing and split on " ".          *)
(***************************************************************************)
\* the default filters of Tokenizer (but the backquote, which no text of the
\* model contains)
TokFilters ==
    { "!", "\"", "#", "$", "%", "&", "(", ")", "*", "+", ",", "-", ".", "/",
      ":", ";", "<", "=", ">", "?", "@", "[", "\\", "]", "^", "_", "{",
      "|", "}", "~", "\t", "\n" }

\* text_to_word_sequence: lower-case, the filtered characters become the
\* split character, split on " ", empty pieces dropped
text_to_word_sequence(s) ==
    SplitOn({ " " }, AsSeq([ i \in 1..Len(s) |->
                               IF LowerChar(s[i]) \in TokFilters THEN " "
                               ELSE LowerChar(s[i]) ]))

\* Tokenizer.fit_on_texts: the words of the texts, the most frequent first
\* and, among equally frequent ones, the one seen first first (a stable sort
\* of an insertion-ordered dict); index_word[i] is the word of index i >= 1
fit_on_texts(texts) ==
    CHOOSE r \in
        { LET W == { ws[i] : i \in 1..Len(ws) }
              count(w) == Cardinality({ i \in 1..Len(ws) : ws[i] = w })
              first(w) == Nth({ i \in 1..Len(ws) : ws[i] = w }, 1)
              before(v, w) ==
                  \/ count(v) > count(w)
                  \/ count(v) = count(w) /\ first(v) < first(w)
              rank(w) == 1 + Cardinality({ v \in W : before(v, w) })
          IN  AsSeq([ i \in 1..Cardinality(W) |-> CHOOSE w \in W : rank(w) = i ])
          : ws \in { JoinWith(<<>>, [ k \in 1..Len(texts) |->
                                        text_to_word_sequence(texts[k]) ]) } }
        : TRUE

\* tokenizer.word_index.get(w): the index of w, 0 for None
WordIndex(tokenizer, w) ==
    IF \E i \in 1..Len(tokenizer.index_word) : tokenizer.index_word[i] = w
    THEN CHOOSE i \in 1..Len(tokenizer.index_word) : tokenizer.index_word[i] = w
    ELSE 0

\* Tokenizer.texts_to_sequences: per text the indices of its words, a word
\* that was never seen or whose index is num_words or more left out
texts_to_sequences(tokenizer, texts) ==
    AsSeq([ k \in 1..Len(texts) |->
        LET ws == text_to_word_sequence(texts[k])
            idx == AsSeq([ j \in 1..Len(ws) |-> WordIndex(tokenizer, ws[j]) ])
        IN  SelectSeq(idx, LAMBDA i : i > 0 /\ i < tokenizer.num_words) ])

\* pad_sequences(sequences, maxlen): padding and truncating are both "pre",
\* the padding value is 0
pad_sequences(sequences, maxlen) ==
    AsSeq([ k \in 1..Len(sequences) |->
        LET q == sequences[k]
            trunc == IF Len(q) > maxlen
                     THEN SubSeq(q, Len(q) - maxlen + 1, Len(q))
                     ELSE q
            pad == maxlen - Len(trunc)
        IN  AsSeq([ j \in 1..maxlen |->
                      IF j <= pad THEN 0 ELSE trunc[j - pad] ]) ])

\* a Python object carries its type: a numpy array, a pandas Series
NdArray(v) == [ type |-> "ndarray", val |-> v ]

Series(v) == [ type |-> "Series", val |-> v ]

\* get_tokenizer(text), lines 126-130
get_tokenizer(texts) ==
    [ type |-> "Tokenizer", num_words |-> VOCAB_SIZE,
      index_word |-> fit_on_texts(texts) ]

\* get_padded_sequences without maxlen=50: pad_sequences then pads to the
\* longest of the sequences
get_padded_sequences_no_maxlen(tokenizer, texts) ==
    LET q == texts_to_sequences(tokenizer, texts)
        longest == IF q = <<>> THEN 0
                   ELSE CHOOSE n \in { Len(q[k]) : k \in 1..Len(q) } :
                            \A k \in 1..Len(q) : Len(q[k]) <= n
    IN  NdArray(pad_sequences(q, longest))

\* get_padded_sequences(tokenizer, text), lines 133-137
get_padded_sequences(tokenizer, texts) ==
    NdArray(pad_sequences(texts_to_sequences(tokenizer, texts), MAXLEN))

(***************************************************************************)
(* load_data, lines 103-123.  A frame is a sequence of rows [target, text];*)
(* a raw row holds the text as read_csv hands it over (a str, or a value   *)
(* that is not a str), a loaded row the cleaned str.                       *)
(***************************************************************************)
\* Series.replace(old, new)
Replace(x, old, new) == IF x = old THEN new ELSE x

\* load_data with the replace of line 121 applied to the inference frame too
load_data_both(csv) ==
    << AsSeq([ i \in 1..Len(csv.train) |->
                 [ target |-> Replace(csv.train[i].target, 4, 1),
                   text |-> text_to_wordlist(csv.train[i].text, FALSE) ] ]),
       AsSeq([ i \in 1..Len(csv.inf) |->
                 [ target |-> Replace(csv.inf[i].target, 4, 1),
                   text |-> text_to_wordlist(csv.inf[i].text, FALSE) ] ]) >>

load_data(csv) ==
    << AsSeq([ i \in 1..Len(csv.train) |->
                 [ target |-> Replace(csv.train[i].target, 4, 1),
                   text |-> text_to_wordlist(csv.train[i].text, FALSE) ] ]),
       AsSeq([ i \in 1..Len(csv.inf) |->
                 [ target |-> csv.inf[i].target,
                   text |-> text_to_wordlist(csv.inf[i].text, FALSE) ] ]) >>

\* the column col of a frame: df.text, df.target
Column(frame, col) == Series(AsSeq([ i \in 1..Len(frame) |-> frame[i][col] ]))

(***************************************************************************)
(* train_test_split(text, target, test_size=0.25) of scikit-learn.         *)
(***************************************************************************)
\* ceil(0.25 * n)
NTest(n) == (n + 3) \div 4

\* floor(0.75 * n)
NTrain(n) == (3 * n) \div 4

\* the permutations of 1..n
Perms(n) == { p \in [ 1..n -> 1..n ] : \A i, j \in 1..n : p[i] = p[j] => i = j }

\* the split under the shuffle perm: the first NTest indices are the test
\* set, the next NTrain the training set
train_test_split(X, y, perm) ==
    LET n == Len(X.val)
        test == [ i \in 1..NTest(n) |-> perm[i] ]
        train == [ i \in 1..NTrain(n) |-> perm[NTest(n) + i] ]
        take(a, idx) ==
            [ type |-> a.type,
              val |-> AsSeq([ i \in 1..Len(idx) |-> a.val[idx[i]] ]) ]
    IN  [ train_X |-> take(X, train), test_X |-> take(X, test),
          train_y |-> take(y, train), test_y |-> take(y, test) ]

(***************************************************************************)
(* data.pkl.  pickle.dump writes the tuple as a stream: MARK, one PUT per  *)
(* item, TUPLE, STOP; pickle.load reads a stream back and fails on one     *)
(* that does not end in STOP.                                              *)
(***************************************************************************)
Op(name) == [ op |-> name, arg |-> <<>> ]

pickle_dump(obj) ==
    << Op("MARK") >> \o [ i \in 1..Len(obj) |-> [ op |-> "PUT", arg |-> obj[i] ] ]
        \o << Op("TUPLE"), Op("STOP") >>

\* whether pickle.load succeeds on the stream
pickle_ok(bytes) ==
    /\ Len(bytes) >= 3
    /\ bytes[1].op = "MARK"
    /\ bytes[Len(bytes) - 1].op = "TUPLE"
    /\ bytes[Len(bytes)].op = "STOP"
    /\ \A i \in 2..(Len(bytes) - 2) : bytes[i].op = "PUT"

pickle_load(bytes) == AsSeq([ i \in 1..(Len(bytes) - 3) |-> bytes[i + 1].arg ])

\* line 177: the order the artifacts are dumped in
DumpOrder(a) ==
    << a.train_X, a.test_X, a.train_y, a.test_y, a.inf_text, a.tokenizer >>

\* line 148 with the names in the order of the return statement
UnpackInReturnOrder(t) ==
    [ train_X |-> t[1], train_y |-> t[2], test_X |-> t[3], test_y |-> t[4],
      inf_text |-> t[5], tokenizer |-> t[6] ]

\* line 148: the names the loaded tuple is unpacked to
Unpack(t) ==
    [ train_X |-> t[1], test_X |-> t[2], train_y |-> t[3], test_y |-> t[4],
      inf_text |-> t[5], tokenizer |-> t[6] ]

\* lines 150 and 179: the tuple get_data returns
ReturnOrder(a) ==
    << a.train_X, a.train_y, a.test_X, a.test_y, a.inf_text, a.tokenizer >>

(***************************************************************************)
(* The state.                                                              *)
(***************************************************************************)
VARIABLES
    text,       \* text_to_wordlist: the text argument
    stops,      \* text_to_wordlist: the remove_stopwords argument
    cleaned,    \* the strings returned so far: by text_to_wordlist(text), then
                \* by text_to_wordlist of that result
    files,      \* the two CSV files maybe_download finds: their rows
    fs,         \* the disk: per data_dir whether it exists, whether it holds
                \* data.pkl, and the stream written to data.pkl
    pc,         \* where the get_data call in progress is ("idle": none is)
    dir,        \* params.data_dir of the call
    loc,        \* the local variables of the call
    ret,        \* how the last call ended, and the tuple it returned
    trace,      \* history: the functions the call has called
    fs0,        \* history: the disk when the call began
    branch,     \* history: the branch of line 144 the call took
    saved,      \* history: per data_dir, the tuple the recompute branch
                \* returned
    ncalls,     \* the number of calls begun
    vtok,       \* the fitted tokenizer
    vtext,      \* the text get_padded_sequences is called on
    padded,     \* what get_padded_sequences(vtok, [vtext]) returned
    efile,      \* the words of the embedding file (embeddings_index)
    embedding,  \* get_embedding_matrix: the matrix, rows 0..VOCAB_SIZE-1
    ei,         \* get_embedding_matrix: the loop variable i
    vpc,        \* where the encoder and the embedding loader are
    vecOf,      \* history: vecOf[i] is the vector the loop gave the word
                \* index_word[i]
    features,   \* input_fn: the rows to feed
    labels,     \* input_fn: their labels, or None
    batch_size, \* input_fn: the batch size
    buffer_size,\* input_fn: the size of the shuffle buffer, or None
    ds,         \* the dataset input_fn returned
    src,        \* its iterator: the next element of the pass under way
    buf,        \* its iterator: the elements in the shuffle buffer
    cur,        \* its iterator: the batch being filled
    out,        \* the batches the iterator has yielded
    exhausted,  \* the iterator has signalled the end of the stream
    fpc         \* where input_fn and its consumer are

cleanVars == << text, stops, cleaned >>

dataVars ==
    << files, fs, pc, dir, loc, ret, trace, fs0, branch, saved, ncalls >>

vocabVars == << vtok, vtext, padded, efile, embedding, ei, vpc, vecOf >>

feedVars ==
    << features, labels, batch_size, buffer_size, ds, src, buf, cur, out,
       exhausted, fpc >>

vars == << cleanVars, dataVars, vocabVars, feedVars >>

(***************************************************************************)
(* Calls of text_to_wordlist: one on an argument, one on its result.       *)
(***************************************************************************)
\* the characters the arguments are made of
CleanAlphabet == { "J", "k", " ", ",", "'", "s", "1", "@", "!" }

\* the longest argument
MaxTextLen == 4

\* the sequences over S of length at most n
SeqsUpTo(S, n) == UNION { [ 1..m -> S ] : m \in 0..n }

CleanInit ==
    /\ text \in { NotStrArg } \cup { StrArg(s) : s \in SeqsUpTo(CleanAlphabet, MaxTextLen) }
    /\ stops \in BOOLEAN
    /\ cleaned = <<>>

CleanIdle ==
    /\ text = NotStrArg
    /\ stops = FALSE
    /\ cleaned = <<>>

\* text_to_wordlist(text, remove_stopwords)
Clean ==
    /\ cleaned = <<>>
    /\ cleaned' = << text_to_wordlist(text, stops) >>
    /\ UNCHANGED << text, stops, dataVars, vocabVars, feedVars >>

\* text_to_wordlist(r) on the result r of text_to_wordlist(text), both with
\* remove_stopwords left False
CleanAgain ==
    /\ Len(cleaned) = 1
    /\ ~stops
    /\ cleaned' = Append(cleaned, text_to_wordlist(StrArg(cleaned[1]), FALSE))
    /\ UNCHANGED << text, stops, dataVars, vocabVars, feedVars >>

CleanNext == Clean \/ CleanAgain

(***************************************************************************)
(* get_data(params), lines 140-179, one step per statement.  One call runs *)
(* at a time; a call may end at any step with an exception or because the *)
(* process is killed (Interrupt).                                          *)
(***************************************************************************)
\* the values of params.data_dir
Dirs == { "d1", "d2" }

\* the raw tweets the files are made of
Tweets ==
    << StrArg(<< "J", " ", ",", "k" >>),
       StrArg(<< "I", "'", "m", " ", "o", "k", "!" >>),
       NotStrArg,
       StrArg(<< "@", "a", " ", "o", "k", " ", "1", "k" >>) >>

\* the polarities of the files: 0 negative, 2 neutral, 4 positive
Targets == << 4, 0, 2 >>

\* the most rows the training file holds
MaxRows == 2

\* the most rows the inference file holds
MaxInfRows == 1

\* the most calls of get_data
MaxCalls == 2

\* n rows, from the k-th on of the tweets and polarities taken in turn
Rows(n, k) ==
    AsSeq([ i \in 1..n |-> [ target |-> Targets[((i + k) % Len(Targets)) + 1],
                             text |-> Tweets[((i + k) % Len(Tweets)) + 1] ] ])

NoLocals ==
    [ df |-> <<>>, inf_df |-> <<>>, tokenizer |-> <<>>, text |-> <<>>,
      inf_text |-> <<>>, train_X |-> <<>>, test_X |-> <<>>, train_y |-> <<>>,
      test_y |-> <<>> ]

NoFile == [ exists |-> FALSE, hasPkl |-> FALSE, pkl |-> <<>> ]

NoReturn == [ outcome |-> "none", val |-> <<>> ]

Raised(e) == [ outcome |-> e, val |-> <<>> ]

DataInit ==
    /\ \E n \in 0..MaxRows, m \in 0..MaxInfRows, k \in 0..(Len(Tweets) - 1) :
          files = [ train |-> Rows(n, k), inf |-> Rows(m, k + 1) ]
    /\ fs = [ d \in Dirs |-> NoFile ]
    /\ pc = "idle"
    /\ dir = "d1"
    /\ loc = NoLocals
    /\ ret = NoReturn
    /\ trace = {}
    /\ fs0 = fs
    /\ branch = "none"
    /\ saved = [ d \in Dirs |-> <<>> ]
    /\ ncalls = 0

DataIdle ==
    /\ files = [ train |-> <<>>, inf |-> <<>> ]
    /\ fs = [ d \in Dirs |-> NoFile ]
    /\ pc = "idle"
    /\ dir = "d1"
    /\ loc = NoLocals
    /\ ret = NoReturn
    /\ trace = {}
    /\ fs0 = fs
    /\ branch = "none"
    /\ saved = [ d \in Dirs |-> <<>> ]
    /\ ncalls = 0

\* line 144 testing for data.pkl instead of the directory
pkl_exists(disk, d) == disk[d].hasPkl

\* os.path.exists(params.data_dir), line 144
path_exists(disk, d) == disk[d].exists

\* get_data(params) is called
Call(d) ==
    /\ pc = "idle"
    /\ ncalls < MaxCalls
    /\ pc' = "exists"
    /\ dir' = d
    /\ loc' = NoLocals
    /\ ret' = NoReturn
    /\ trace' = {}
    /\ fs0' = fs
    /\ branch' = "none"
    /\ ncalls' = ncalls + 1
    /\ UNCHANGED << cleanVars, vocabVars, feedVars, files, fs, saved >>

\* line 144
Exists ==
    /\ pc = "exists"
    /\ IF path_exists(fs, dir)
       THEN pc' = "load" /\ branch' = "hit"
       ELSE pc' = "load_data" /\ branch' = "miss"
    /\ UNCHANGED << cleanVars, vocabVars, feedVars, files, fs, dir, loc, ret, trace, fs0, saved, ncalls >>

\* lines 147-150: open data.pkl, pickle.load, unpack, return
Load ==
    /\ pc = "load"
    /\ pc' = "idle"
    /\ ret' = IF ~fs[dir].hasPkl THEN Raised("FileNotFoundError")
              ELSE IF ~pickle_ok(fs[dir].pkl) THEN Raised("EOFError")
              ELSE IF Len(pickle_load(fs[dir].pkl)) # 6 THEN Raised("ValueError")
              ELSE [ outcome |-> "returned",
                     val |-> ReturnOrder(Unpack(pickle_load(fs[dir].pkl))) ]
    /\ UNCHANGED << cleanVars, vocabVars, feedVars, files, fs, dir, loc, trace, fs0, branch, saved, ncalls >>

\* line 157
LoadData ==
    /\ pc = "load_data"
    /\ pc' = "get_tokenizer"
    /\ \E frames \in { load_data(files) } :
          loc' = [ loc EXCEPT !.df = frames[1], !.inf_df = frames[2] ]
    /\ trace' = trace \cup { "load_data" }
    /\ UNCHANGED << cleanVars, vocabVars, feedVars, files, fs, dir, ret, fs0, branch, saved, ncalls >>

\* line 161
GetTokenizer ==
    /\ pc = "get_tokenizer"
    /\ pc' = "get_padded_sequences"
    /\ loc' = [ loc EXCEPT
                  !.tokenizer = get_tokenizer(Column(loc.df, "text").val) ]
    /\ trace' = trace \cup { "get_tokenizer" }
    /\ UNCHANGED << cleanVars, vocabVars, feedVars, files, fs, dir, ret, fs0, branch, saved, ncalls >>

\* lines 165-166
GetPaddedSequences ==
    /\ pc = "get_padded_sequences"
    /\ pc' = "train_test_split"
    /\ loc' = [ loc EXCEPT
                  !.text = get_padded_sequences(
                               loc.tokenizer, Column(loc.df, "text").val),
                  !.inf_text = get_padded_sequences(
                                   loc.tokenizer, Column(loc.inf_df, "text").val) ]
    /\ trace' = trace \cup { "get_padded_sequences" }
    /\ UNCHANGED << cleanVars, vocabVars, feedVars, files, fs, dir, ret, fs0, branch, saved, ncalls >>

\* lines 169-171: the shuffle is any permutation; with no row left to train
\* on, train_test_split raises ValueError
TrainTestSplit ==
    /\ pc = "train_test_split"
    /\ trace' = trace \cup { "train_test_split" }
    /\ IF NTrain(Len(loc.text.val)) = 0
       THEN /\ pc' = "idle"
            /\ ret' = Raised("ValueError")
            /\ loc' = loc
       ELSE /\ pc' = "makedirs"
            /\ ret' = ret
            /\ \E perm \in Perms(Len(loc.text.val)) :
                  LET sp == train_test_split(loc.text,
                                             Column(loc.df, "target"), perm)
                  IN  loc' = [ loc EXCEPT !.train_X = sp.train_X,
                                          !.test_X = sp.test_X,
                                          !.train_y = sp.train_y,
                                          !.test_y = sp.test_y ]
    /\ UNCHANGED << cleanVars, vocabVars, feedVars, files, fs, dir, fs0, branch, saved, ncalls >>

\* line 175: os.makedirs(params.data_dir)
MakeDirs ==
    /\ pc = "makedirs"
    /\ IF fs[dir].exists
       THEN /\ pc' = "idle"
            /\ ret' = Raised("FileExistsError")
            /\ fs' = fs
       ELSE /\ pc' = "open"
            /\ ret' = ret
            /\ fs' = [ fs EXCEPT ![dir].exists = TRUE ]
    /\ UNCHANGED << cleanVars, vocabVars, feedVars, files, dir, loc, trace, fs0, branch, saved, ncalls >>

\* line 176: open(data.pkl, "wb") creates the file, empty
Open ==
    /\ pc = "open"
    /\ pc' = "dump"
    /\ fs' = [ fs EXCEPT ![dir].hasPkl = TRUE, ![dir].pkl = <<>> ]
    /\ UNCHANGED << cleanVars, vocabVars, feedVars, files, dir, loc, ret, trace, fs0, branch, saved, ncalls >>

\* line 177: pickle.dump, and the file is closed
Dump ==
    /\ pc = "dump"
    /\ pc' = "return"
    /\ fs' = [ fs EXCEPT ![dir].pkl = pickle_dump(DumpOrder(loc)) ]
    /\ UNCHANGED << cleanVars, vocabVars, feedVars, files, dir, loc, ret, trace, fs0, branch, saved, ncalls >>

\* line 179
Return ==
    /\ pc = "return"
    /\ pc' = "idle"
    /\ ret' = [ outcome |-> "returned", val |-> ReturnOrder(loc) ]
    /\ saved' = [ saved EXCEPT ![dir] = ReturnOrder(loc) ]
    /\ UNCHANGED << cleanVars, vocabVars, feedVars, files, fs, dir, loc, trace, fs0, branch, ncalls >>

\* the call ends where it is: KeyboardInterrupt, the process is killed, a
\* download or a write fails; what was written of data.pkl stays
Interrupt ==
    /\ pc \notin { "idle" }
    /\ pc' = "idle"
    /\ ret' = Raised("Interrupted")
    /\ IF pc = "dump"
       THEN \E k \in 0..(Len(pickle_dump(DumpOrder(loc))) - 1) :
               fs' = [ fs EXCEPT
                         ![dir].pkl = SubSeq(pickle_dump(DumpOrder(loc)), 1, k) ]
       ELSE fs' = fs
    /\ UNCHANGED << cleanVars, vocabVars, feedVars, files, dir, loc, trace, fs0, branch, saved, ncalls >>

DataNext ==
    \/ \E d \in Dirs : Call(d)
    \/ Exists
    \/ Load
    \/ LoadData
    \/ GetTokenizer
    \/ GetPaddedSequences
    \/ TrainTestSplit
    \/ MakeDirs
    \/ Open
    \/ Dump
    \/ Return
    \/ Interrupt

(***************************************************************************)
(* get_padded_sequences on one text, and get_embedding_matrix(tokenizer),  *)
(* lines 182-203, one step per iteration of its loop.                      *)
(***************************************************************************)
\* the words the texts are made of: those of the corpus, and one more
Words ==
    << << "o", "k" >>, << "j", "k" >>, << "a", "m" >>, << "i" >>,
       << "n", "o", "t" >>, << "z", "z" >> >>

\* the most words the corpus the tokenizer is fitted on holds
MaxCorpusLen == 5

\* the most words the text to encode holds
MaxTokens == 52

\* the number of vectors np.random.uniform draws from
NDraws == 2

\* the text of n words taken from the first m of Words, in turn, a apart
Speak(n, a, m) ==
    JoinSp(AsSeq([ i \in 1..n |-> Words[(((i - 1) * a) % m) + 1] ]))

\* the pretrained vector of a word of the embedding file
Pretrained(w) == [ kind |-> "pretrained", word |-> w, draw |-> 0 ]

\* np.random.uniform(-1, 1, EMBEDDING_SIZE): one of the vectors it may draw
Random(r) == [ kind |-> "random", word |-> <<>>, draw |-> r ]

\* what a row np.empty allocated may hold: anything
Garbage == { Pretrained(Words[1]), Random(0) }

\* the rows of the matrix, numbered as numpy numbers them
MatrixRows == 0..(VOCAB_SIZE - 1)

NoTokenizer == [ type |-> "Tokenizer", num_words |-> VOCAB_SIZE, index_word |-> <<>> ]

VocabInit ==
    /\ \E n \in 0..MaxCorpusLen, a \in 1..2 :
          vtok = get_tokenizer(<< Speak(n, a, Len(Words) - 1) >>)
    /\ vtext = <<>>
    /\ padded = NdArray(<<>>)
    /\ efile \in { {}, { Words[1], Words[2], Words[3] } }
    /\ embedding = [ r \in MatrixRows |-> Random(0) ]
    /\ ei = 0
    /\ vpc = "fitted"
    /\ vecOf = <<>>

VocabIdle ==
    /\ vtok = NoTokenizer
    /\ vtext = <<>>
    /\ padded = NdArray(<<>>)
    /\ efile = {}
    /\ embedding = [ r \in MatrixRows |-> Random(0) ]
    /\ ei = 0
    /\ vpc = "fitted"
    /\ vecOf = <<>>

\* get_padded_sequences(tokenizer, [text]), of a text of a few words or of
\* about MAXLEN words, before the matrix is built or once it is returned
Encode ==
    /\ vpc \in { "fitted", "returned" }
    /\ padded = NdArray(<<>>)
    /\ \E n \in (0..3) \cup ((MAXLEN - 1)..MaxTokens), m \in { 1, Len(Words) } :
          /\ vtext' = Speak(n, 1, m)
          /\ padded' = get_padded_sequences(vtok, << vtext' >>)
    /\ UNCHANGED << cleanVars, dataVars, feedVars, vtok, efile, embedding, ei, vpc, vecOf >>

\* lines 185-195: the embedding file is read, the matrix allocated
EmbedStart ==
    /\ vpc = "fitted"
    /\ padded = NdArray(<<>>)
    /\ vpc' = "loop"
    /\ embedding' \in [ MatrixRows -> Garbage ]
    /\ ei' = 1
    /\ UNCHANGED << cleanVars, dataVars, feedVars, vtok, vtext, padded, efile, vecOf >>

\* lines 196-201, one iteration: index_word[i] raises KeyError when the
\* vocabulary has no word of index i; a word the file lacks gets a random
\* vector
EmbedWord ==
    /\ vpc = "loop"
    /\ ei <= VOCAB_SIZE
    /\ IF ei > Len(vtok.index_word)
       THEN /\ vpc' = "KeyError"
            /\ UNCHANGED << embedding, ei, vecOf >>
       ELSE /\ vpc' = vpc
            /\ ei' = ei + 1
            /\ \E v \in IF vtok.index_word[ei] \in efile
                         THEN { Pretrained(vtok.index_word[ei]) }
                         ELSE { Random(r) : r \in 1..NDraws } :
                  /\ embedding' = [ embedding EXCEPT ![ei - 1] = v ]
                  /\ vecOf' = Append(vecOf, v)
    /\ UNCHANGED << cleanVars, dataVars, feedVars, vtok, vtext, padded, efile >>

\* line 203
EmbedReturn ==
    /\ vpc = "loop"
    /\ ei > VOCAB_SIZE
    /\ vpc' = "returned"
    /\ UNCHANGED << cleanVars, dataVars, feedVars, vtok, vtext, padded, efile, embedding, ei,
                    vecOf >>

VocabNext == Encode \/ EmbedStart \/ EmbedWord \/ EmbedReturn

(***************************************************************************)
(* input_fn(features, labels, batch_size, buffer_size), lines 206-224, and *)
(* the iterator of the dataset it returns, one step per element drawn.     *)
(***************************************************************************)
\* the most rows fed
MaxFeatures == 3

\* the largest batch size
MaxBatchSize == 2

\* the largest shuffle buffer
MaxBufferSize == 2

\* the most batches the consumer takes
MaxBatches == 3

\* an optional argument: None, or a value
None == [ given |-> FALSE, val |-> <<>> ]

\* None for a size
NoSize == [ given |-> FALSE, val |-> 0 ]

Some(v) == [ given |-> TRUE, val |-> v ]

\* the condition of line 218 without its test: shuffle and repeat always
ShuffleAndRepeatAlways(labs) == TRUE

\* line 218: the dataset is shuffled and repeated if labels is not None
ShuffleAndRepeat(labs) == labs.given

\* lines 210-215: from_tensor_slices of (features, labels), or of features
from_tensor_slices(feats, labs) ==
    IF labs.given
    THEN AsSeq([ i \in 1..Len(feats) |-> << feats[i], labs.val[i] >> ])
    ELSE feats

NoDataset == [ elements |-> <<>>, shuffle |-> FALSE, repeat |-> FALSE,
               buffer |-> 0, batch |-> 0 ]

FeedInit ==
    /\ \E n \in 0..MaxFeatures :
          /\ features = AsSeq([ i \in 1..n |-> i ])
          /\ labels \in { None, Some(AsSeq([ i \in 1..n |-> i % 2 ])) }
    /\ batch_size \in 1..MaxBatchSize
    /\ buffer_size \in { NoSize } \cup { Some(b) : b \in 1..MaxBufferSize }
    /\ ds = NoDataset
    /\ src = 1
    /\ buf = {}
    /\ cur = <<>>
    /\ out = <<>>
    /\ exhausted = FALSE
    /\ fpc = "call"

FeedIdle ==
    /\ features = <<>>
    /\ labels = None
    /\ batch_size = 1
    /\ buffer_size = NoSize
    /\ ds = NoDataset
    /\ src = 1
    /\ buf = {}
    /\ cur = <<>>
    /\ out = <<>>
    /\ exhausted = FALSE
    /\ fpc = "idle"

\* lines 206-224: the assertion of line 208, then the dataset
InputFn ==
    /\ fpc = "call"
    /\ IF ~buffer_size.given
       THEN /\ fpc' = "AssertionError"
            /\ ds' = ds
       ELSE /\ fpc' = "iterating"
            /\ ds' = [ elements |-> from_tensor_slices(features, labels),
                       shuffle |-> ShuffleAndRepeat(labels),
                       repeat |-> ShuffleAndRepeat(labels),
                       buffer |-> buffer_size.val,
                       batch |-> batch_size ]
    /\ UNCHANGED << cleanVars, dataVars, vocabVars, features, labels,
                    batch_size, buffer_size, src, buf, cur, out, exhausted >>

\* the shuffle buffer once refilled from the pass under way
Refilled ==
    buf \cup { i \in src..Len(ds.elements) : i < src + ds.buffer - Cardinality(buf) }

\* the element numbered i joins the batch being filled, which is yielded
\* once it holds batch elements
Push(i) ==
    LET c == Append(cur, ds.elements[i])
    IN  IF Len(c) = ds.batch
        THEN out' = Append(out, c) /\ cur' = <<>>
        ELSE out' = out /\ cur' = c

\* the iterator draws one element: any of the shuffle buffer, or the next
Take ==
    /\ fpc = "iterating"
    /\ ~exhausted
    /\ Len(out) < MaxBatches
    /\ IF ds.shuffle
       THEN /\ Refilled # {}
            /\ \E i \in Refilled :
                  /\ Push(i)
                  /\ buf' = Refilled \ { i }
                  /\ src' = src + Cardinality(Refilled \ buf)
       ELSE /\ src <= Len(ds.elements)
            /\ Push(src)
            /\ src' = src + 1
            /\ buf' = buf
    /\ UNCHANGED << cleanVars, dataVars, vocabVars, features, labels,
                    batch_size, buffer_size, ds, exhausted, fpc >>

\* repeat(): a pass that has ended, and was not empty, is begun again
Repeat ==
    /\ fpc = "iterating"
    /\ ~exhausted
    /\ Len(out) < MaxBatches
    /\ ds.repeat
    /\ ds.elements # <<>>
    /\ IF ds.shuffle THEN Refilled = {} ELSE src > Len(ds.elements)
    /\ src' = 1
    /\ buf' = {}
    /\ UNCHANGED << cleanVars, dataVars, vocabVars, features, labels,
                    batch_size, buffer_size, ds, cur, out, exhausted, fpc >>

\* the end of the stream: the batch being filled, if any, is the last
Exhaust ==
    /\ fpc = "iterating"
    /\ ~exhausted
    /\ Len(out) < MaxBatches
    /\ ~ds.repeat \/ ds.elements = <<>>
    /\ IF ds.shuffle THEN Refilled = {} ELSE src > Len(ds.elements)
    /\ exhausted' = TRUE
    /\ out' = IF cur = <<>> THEN out ELSE Append(out, cur)
    /\ cur' = <<>>
    /\ UNCHANGED << cleanVars, dataVars, vocabVars, features, labels,
                    batch_size, buffer_size, ds, src, buf, fpc >>

FeedNext == InputFn \/ Take \/ Repeat \/ Exhaust

InitFeed == CleanIdle /\ DataIdle /\ VocabIdle /\ FeedInit

SpecFeed == InitFeed /\ [][FeedNext]_vars

Init == CleanIdle /\ DataInit /\ VocabIdle /\ FeedIdle

InitVocab == CleanIdle /\ DataIdle /\ VocabInit /\ FeedIdle

SpecVocab == InitVocab /\ [][VocabNext]_vars

Spec == Init /\ [][DataNext]_vars

InitClean == CleanInit /\ DataIdle /\ VocabIdle /\ FeedIdle

SpecClean == InitClean /\ [][CleanNext]_vars

(***************************************************************************)
(* Properties of get_data and load_data.                                   *)
(***************************************************************************)
\* two Python objects are the same: of one type and of one value
SameObject(a, b) == a.type = b.type /\ a.val = b.val

SameTokenizer(a, b) ==
    /\ a.type = b.type
    /\ a.num_words = b.num_words
    /\ a.index_word = b.index_word

\* two tuples as get_data returns them hold the same artifact at each place
SameArtifacts(t, u) ==
    /\ Len(t) = 6
    /\ Len(u) = 6
    /\ \A i \in 1..5 : SameObject(t[i], u[i])
    /\ SameTokenizer(t[6], u[6])

\* a call has just returned from the cache-hit branch
HitReturned == pc = "idle" /\ branch = "hit" /\ ret.outcome = "returned"

\* C1: once a call for a data_dir took the recompute branch and returned,
\* every call for that data_dir that returns from the cache returns the same
\* artifacts, each at the same place of the tuple
C1_CacheRoundTrip ==
    (HitReturned /\ Len(saved[dir]) = 6) => SameArtifacts(ret.val, saved[dir])

\* a cache hit after a completed recompute whose split put rows on both sides
C1_Witness ==
    /\ HitReturned
    /\ Len(saved[dir]) = 6
    /\ Len(ret.val[2].val) >= 1
    /\ Len(ret.val[3].val) >= 1

\* the disk as it was when the call began
DiskUnchanged == fs = fs0

\* C5: a call that finds data_dir calls none of load_data, get_tokenizer,
\* get_padded_sequences, train_test_split and leaves the disk as it was;
\* those run only in a call that found no data_dir
C5_HitChangesNothing ==
    /\ branch = "hit" => trace = {} /\ DiskUnchanged
    /\ trace # {} => branch = "miss" /\ ~fs0[dir].exists

\* a call has returned from the cache
C5_Witness == HitReturned /\ fs[dir].hasPkl

\* C8: in the training frame load_data returns no target is 4, a raw 4 is 1
\* and every other target is as read; the inference frame's targets are as
\* read
C8_LabelsRemapped ==
    "load_data" \in trace =>
        /\ Len(loc.df) = Len(files.train)
        /\ Len(loc.inf_df) = Len(files.inf)
        /\ \A i \in 1..Len(loc.df) :
              /\ loc.df[i].target # 4
              /\ files.train[i].target = 4 => loc.df[i].target = 1
              /\ files.train[i].target # 4 =>
                    loc.df[i].target = files.train[i].target
        /\ \A i \in 1..Len(loc.inf_df) :
              loc.inf_df[i].target = files.inf[i].target

\* load_data has returned frames read from files with a 4 in each
C8_Witness ==
    /\ "load_data" \in trace
    /\ \E i \in 1..Len(files.train) : files.train[i].target = 4
    /\ \E i \in 1..Len(files.train) : files.train[i].target # 4
    /\ \E i \in 1..Len(files.inf) : files.inf[i].target = 4

\* C9 as claimed: between calls, a data_dir that exists holds a data.pkl with
\* the complete tuple, and a call that took the cache-hit branch and ran to
\* its end returned the artifacts
C9_CacheConsistent ==
    pc = "idle" =>
        /\ \A d \in Dirs :
              fs[d].exists =>
                  /\ fs[d].hasPkl
                  /\ pickle_ok(fs[d].pkl)
                  /\ Len(pickle_load(fs[d].pkl)) = 6
        /\ (branch = "hit" /\ ret.outcome # "Interrupted") =>
              ret.outcome = "returned"

(***************************************************************************)
(* Properties of get_padded_sequences and get_embedding_matrix.            *)
(***************************************************************************)
\* the number of words of the text that the tokenizer encodes: those whose
\* index is below num_words
KnownTokens ==
    LET ws == text_to_word_sequence(vtext)
    IN  Cardinality({ j \in 1..Len(ws) :
                        /\ WordIndex(vtok, ws[j]) >= 1
                        /\ WordIndex(vtok, ws[j]) < vtok.num_words })

\* C7: the sequence get_padded_sequences returns for a text has exactly 50
\* entries: all but the last k are 0 and none of the last k is when the text
\* has k < 50 known tokens, none is 0 when it has 50 or more
C7_FixedLength ==
    padded # NdArray(<<>>) =>
        /\ Len(padded.val) = 1
        /\ Len(padded.val[1]) = 50
        /\ \A j \in 1..Len(padded.val[1]) :
              padded.val[1][j] = 0 <=> j <= 50 - KnownTokens

\* a text of more than 50 known tokens has been encoded
C7_Witness == Len(padded.val) = 1 /\ KnownTokens > 50

\* a text of unknown words only has been encoded
C7_WitnessUnknown ==
    Len(padded.val) = 1 /\ KnownTokens = 0 /\ Len(vtext) > 0

\* C2 as claimed: in the matrix get_embedding_matrix returns, row i holds the
\* vector of the word index_word[i], for every index i below VOCAB_SIZE that
\* occurs in the sequence get_padded_sequences returned
C2_RowIsVectorOfIndex ==
    vpc = "returned" =>
        \A i \in 1..(VOCAB_SIZE - 1) :
            (/\ Len(padded.val) = 1
             /\ \E j \in 1..Len(padded.val[1]) : padded.val[1][j] = i)
                => embedding[i] = vecOf[i]

\* C3 as claimed: get_embedding_matrix raises no lookup error, whatever the
\* size of the vocabulary, and every row of the matrix it returns is the
\* pretrained vector of its word or a random one
C3_NeverFails ==
    /\ vpc # "KeyError"
    /\ vpc = "returned" =>
          \A r \in MatrixRows :
              \/ embedding[r].kind = "random" /\ embedding[r].draw >= 1
              \/ embedding[r] = Pretrained(vtok.index_word[r + 1])

(***************************************************************************)
(* Properties of input_fn.                                                 *)
(***************************************************************************)
\* the elements the iterator has drawn, in order
Stream == JoinWith(<<>>, out \o << cur >>)

\* C4, amended: the stream is batched whether labels are given or not; with
\* labels (training) it never ends while there are rows, and each pass holds
\* every row once; without labels (inference) it yields the rows in their
\* order, once, and ends after ceil(n / batch_size) batches
C4_BatchedAndRepeatingWithLabels ==
    fpc = "iterating" =>
        /\ \A k \in 1..Len(out) :
              /\ Len(out[k]) \in 1..batch_size
              /\ Len(out[k]) < batch_size => k = Len(out) /\ exhausted
        /\ labels.given /\ features # <<>> =>
              /\ ~exhausted
              /\ \A p, q \in 1..Len(Stream) :
                    /\ p < q
                    /\ (p - 1) \div Len(features) = (q - 1) \div Len(features)
                    => Stream[p] # Stream[q]
              /\ \A p \in 1..Len(Stream) :
                    \E i \in 1..Len(features) :
                        Stream[p] = << features[i], labels.val[i] >>
        /\ ~labels.given =>
              /\ Stream = SubSeq(features, 1, Len(Stream))
              /\ exhausted =>
                    /\ Len(Stream) = Len(features)
                    /\ Len(out) = (Len(features) + batch_size - 1) \div batch_size

\* without labels, the rows have been fed once, the last batch a partial
\* one, and the stream has ended
C4_Witness ==
    /\ fpc = "iterating"
    /\ ~labels.given
    /\ exhausted
    /\ Len(features) > batch_size
    /\ Len(out[Len(out)]) < batch_size

\* with labels, a second pass is under way and the first was not in the
\* order of the rows
C4_WitnessTraining ==
    /\ fpc = "iterating"
    /\ labels.given
    /\ Len(Stream) > Len(features)
    /\ \E p \in 1..(Len(features) - 1) : Stream[p][1] > Stream[p + 1][1]

\* C4 as claimed: the stream is never exhausted, whether labels are given
\* (training) or not (inference)
C4_NeverExhausted ==
    fpc = "iterating" /\ features # <<>> => ~exhausted

(***************************************************************************)
(* Properties of text_to_wordlist.                                         *)
(***************************************************************************)
\* the characters a token of a cleaned string is made of
TokenChars == LowerLetters \cup { "!", "^", "+", "-", "=", ":", ";", "<" }

\* s is empty, or non-empty tokens of TokenChars separated by one space each
NormalForm(s) ==
    /\ \A i \in 1..Len(s) : s[i] \in TokenChars \cup { " " }
    /\ s # <<>> => s[1] # " " /\ s[Len(s)] # " "
    /\ \A i \in 1..(Len(s) - 1) : ~(s[i] = " " /\ s[i + 1] = " ")

\* C6 as claimed: cleaning a cleaned string (remove_stopwords False) does not
\* change it
C6_Idempotent ==
    Len(cleaned) = 2 => cleaned[2] = cleaned[1]

\* C10: every string text_to_wordlist returns, for a str or a non-str and
\* with or without remove_stopwords, is empty or a sequence of non-empty tokens
\* separated by exactly one space, without leading or trailing whitespace,
\* each token made of a-z and ! ^ + - = : ; < only
C10_NormalForm ==
    \A i \in 1..Len(cleaned) : NormalForm(cleaned[i])

\* a returned string of two tokens, for an argument with an upper-case
\* letter, a digit, an apostrophe, a comma or a mention in it
C10_Witness ==
    /\ Len(cleaned) >= 1
    /\ \E i \in 1..Len(cleaned[1]) : cleaned[1][i] = " "
    /\ \E i \in 1..Len(text.val) : text.val[i] \in { "J", "1", "'", ",", "@" }

=============================================================================
